---- MODULE Spec2Model ----
(***************************************************************************)
(* A model of the parallel_world crate: World (src/src/world.rs), a        *)
(* single-use task run on a thread of its own, and ParallelWorlds          *)
(* (src/src/parallel_worlds.rs), the registry of worlds.                   *)
(*                                                                         *)
(* Every Mutex of the code that can be contended is a variable holding its *)
(* owner (statusLock, handleLock, worldsLock).  The mutexes of process,    *)
(* result_sender and result_receiver are taken and released inside one     *)
(* statement, or only while one of the former is held, so the statements   *)
(* that use them are single steps.                                         *)
(***************************************************************************)
EXTENDS Naturals, Sequences, FiniteSets, TLC

\* ------------------------------------------------------------------ bounds
NumTasks == 2
NumClients == 2
WorkSteps == 1
SoloWorlds == 1
RegistryClients == 1
MaxInt == 3

Tasks == 1..NumTasks
Clients == 1..NumClients
Ids == {"A", "B"}
Vals == {100}
Msgs == {<<"boom">>}

\* Option::None (an empty slot, a free mutex, an absent map entry) and ()
None == 0
NoOwner == None
NoTask == None
NoWorld == None
Unit == 0

\* ------------------------------------------------------------- WorldStatus
Ready == [tag |-> "Ready", reason |-> <<>>]
Running == [tag |-> "Running", reason |-> <<>>]
Finished == [tag |-> "Finished", reason |-> <<>>]
\* a stop that is recorded as a kill
StoppedAsKilled == [tag |-> "Killed", reason |-> <<>>]
Stopped == [tag |-> "Stopped", reason |-> <<>>]
Killed == [tag |-> "Killed", reason |-> <<>>]
Failed(e) == [tag |-> "Failed", reason |-> e]

\* impl fmt::Display for WorldStatus: the text as a sequence of pieces
Display(st) == IF st.tag = "Failed" THEN <<"Failed: ">> \o st.reason ELSE <<st.tag>>

\* ---------------------------------------------------- Result<R, String>
Ok(v) == [ok |-> TRUE, val |-> v, err |-> <<>>]
Err(e) == [ok |-> FALSE, val |-> Unit, err |-> e]

ErrAlreadyRunning == <<"World is already running.">>
ErrAlreadyCompleted == <<"World has already completed or failed and cannot be restarted.">>
ErrNoSender == <<"Internal error: Result sender not available.">>
ErrNoProcess == <<"No process defined for this World.">>
ErrNotRunning == <<"World is not running or already stopped.">>
ErrNotSent == <<"World finished but result not sent (internal error).">>
ErrStopped == <<"World was stopped before completion.">>
ErrKilled == <<"World was killed before completion.">>
ErrRetrieved == <<"World result already retrieved.">>
ErrUnexpected(st) == <<"World ended with unexpected status and no result: ">> \o Display(st)
ErrNotAvailable(st) == <<"World result not available for status: ">> \o Display(st)
ErrNotFound(id) == <<"World with ID '", id, "' not found.">>
ErrExists(id) == <<"World with ID '", id, "' already exists.">>
ErrDelRunning(id) == <<"Cannot delete running World with ID '", id, "'. Stop it first.">>

\* ------------------------------------------------------------- callables
\* Option<Box<dyn FnOnce() -> R>>: None, a closure returning val, or a
\* closure that panics with message msg
NoProcess == [kind |-> "none", val |-> Unit, msg |-> <<>>]
Returns(v) == [kind |-> "ret", val |-> v, msg |-> <<>>]
Panics(m) == [kind |-> "panic", val |-> Unit, msg |-> m]
Callables == {Returns(v) : v \in Vals} \cup {Panics(m) : m \in Msgs}

\* {:?} of the Box<dyn Any + Send> that catch_unwind returns: the Debug
\* implementation of dyn Any prints the type's placeholder, not the payload
DebugAny(payload) == <<"Any { .. }">>

\* format!("Thread panicked: {:?}", e)
PanicMessage(payload) == <<"Thread panicked: ">> \o DebugAny(payload)

\* a closure that sends a default value in place of the callable's
ThreadResultDefault(fn) ==
    IF fn.kind = "ret" THEN Ok(Unit) ELSE Err(<<"Thread panicked: ">> \o <<"Any { .. }">>)

\* the value the spawned closure hands to result_sender.send
ThreadResult(fn) ==
    IF fn.kind = "ret" THEN Ok(fn.val) ELSE Err(PanicMessage(fn.msg))

\* ------------------------------------------------------------------ state
VARIABLES
    process,          \* World.process: the callable slot
    status,           \* World.status
    thread_handle,    \* World.thread_handle holds a JoinHandle
    result_sender,    \* World.result_sender holds the Sender
    result_receiver,  \* World.result_receiver holds the Receiver
    chan,             \* messages in the mpsc channel
    statusLock,       \* owner of the status mutex
    handleLock,       \* owner of the thread_handle mutex
    tpc,              \* position of the spawned thread
    job,              \* process_fn, moved into the spawned closure
    work,             \* steps of the callable executed so far
    made,             \* the worlds that have been constructed
    worlds,           \* ParallelWorlds.worlds: id -> world
    moved,            \* worlds given to add(): owned by the registry
    worldsLock,       \* owner of the worlds mutex
    lost,             \* worlds dropped by an add() that failed
    cl,               \* each caller's position
    ret,              \* the value the last step returned to its caller, if any
    calls,            \* history: invocations of each callable
    startOk,          \* history: start() has returned Ok
    okWaits,          \* history: status() calls that returned Ok
    delivered,        \* history: a status() call has returned the channel's value
    typedWait         \* a wait through the type-erased interface: its position and values

taskVars == <<process, status, thread_handle, result_sender, result_receiver,
              chan, statusLock, handleLock, tpc, job, work>>
regVars == <<made, worlds, moved, worldsLock, lost>>
histVars == <<calls, startOk, okWaits, delivered>>
vars == <<taskVars, regVars, cl, ret, histVars, typedWait>>

Idle == [pc |-> "idle", t |-> NoTask, run |-> FALSE, bulk |-> "none",
         todo |-> {}, after |-> FALSE, late |-> FALSE]
NoRes == [c |-> NoOwner, op |-> "none", t |-> NoTask, ok |-> FALSE,
          val |-> Unit, err |-> <<>>, st |-> Ready, after |-> FALSE, late |-> FALSE, src |-> "none",
          id |-> "", ids |-> {}]

\* a caller that does not take part never leaves this position
Off == [Idle EXCEPT !.pc = "off"]

\* World::new() has no callable, World::from(f) has one; W are the worlds the
\* program constructs and C the threads that call them
InitWith(W, C) ==
    /\ made = W
    /\ process \in [Tasks -> Callables \cup {NoProcess}]
    /\ \A t \in Tasks \ W : process[t] = NoProcess
    /\ status = [t \in Tasks |-> Ready]
    /\ thread_handle = [t \in Tasks |-> FALSE]
    /\ result_sender = [t \in Tasks |-> TRUE]
    /\ result_receiver = [t \in Tasks |-> TRUE]
    /\ chan = [t \in Tasks |-> <<>>]
    /\ statusLock = [t \in Tasks |-> NoOwner]
    /\ handleLock = [t \in Tasks |-> NoOwner]
    /\ tpc = [t \in Tasks |-> "none"]
    /\ job = [t \in Tasks |-> NoProcess]
    /\ work = [t \in Tasks |-> 0]
    /\ worlds = [i \in Ids |-> NoWorld]
    /\ moved = {}
    /\ worldsLock = NoOwner
    /\ lost = {}
    /\ cl = [c \in Clients |-> IF c \in C THEN Idle ELSE Off]
    /\ ret = NoRes
    /\ calls = [t \in Tasks |-> 0]
    /\ startOk = [t \in Tasks |-> FALSE]
    /\ okWaits = [t \in Tasks |-> 0]
    /\ delivered = [t \in Tasks |-> FALSE]

\* a value that knows its type: () stands where a Result holds no value
UnitVal == [ty |-> "()", v |-> 0]

\* Result<R, String> of a typed value
OkOf(x) == [ok |-> TRUE, val |-> x, err |-> <<>>]
ErrOf(e) == [ok |-> FALSE, val |-> UnitVal, err |-> e]

\* Box::new(r) as Box<dyn Any + Send>: the value with the TypeId of R
BoxAny(x) == [type_id |-> x.ty, data |-> x.v]

\* no wait through the type-erased interface is under way
NoTypedWait == [pc |-> "off", res |-> ErrOf(<<>>), asked |-> "",
                any |-> [ErrOf(<<>>) EXCEPT !.val = BoxAny(UnitVal)],
                out |-> ErrOf(<<>>)]

\* one world, called from every thread
Init == InitWith(1..SoloWorlds, Clients) /\ typedWait = NoTypedWait

\* every world, called from the thread that owns the registry
InitRegistry == InitWith(Tasks, 1..RegistryClients) /\ typedWait = NoTypedWait

\* ---------------------------------------------------------------- helpers
\* the Sender lives in the closure until the thread ends
ThreadHasSender(t) == tpc[t] \in {"spawned", "running", "send", "exit"}

\* recv() fails once every Sender is dropped and the channel is empty
Disconnected(t) == ~result_sender[t] /\ ~ThreadHasSender(t)

\* the Receiver is in its slot or in the hands of a caller inside recv()
ReceiverAlive(t) ==
    result_receiver[t] \/ \E c \in Clients : cl[c].t = t /\ cl[c].pc = "recv"

\* the world has resolved and its result has been retrieved
Retrieved(t) == delivered[t]

\* a call returns value r: inside start_all/stop_all the value is dropped and
\* the loop goes on; inside run() an Ok of start() is followed by status()
Return(c, op, r, src) ==
    LET me == cl[c] IN
    IF me.bulk # "none"
    THEN /\ cl' = [cl EXCEPT ![c] = [me EXCEPT !.pc = me.bulk, !.t = NoTask]]
         /\ ret' = NoRes
    ELSE IF me.run /\ op = "start" /\ r.ok
    THEN /\ cl' = [cl EXCEPT ![c] = [me EXCEPT !.pc = "wait", !.after = TRUE]]
         /\ ret' = NoRes
    ELSE /\ cl' = [cl EXCEPT ![c] = Idle]
         /\ ret' = [NoRes EXCEPT !.c = c, !.op = op, !.t = me.t, !.ok = r.ok,
                                     !.val = r.val, !.err = r.err,
                                     !.after = me.after, !.late = me.late,
                                     !.src = src]

\* ------------------------------------------------------------ World::start
\* a start() that refuses a Running world only
StartRefusalRunning(st) ==
    IF st = Running THEN <<"World is already running.">> ELSE <<>>

\* the checks made under the status lock (lines 212-219)
StartRefusal(st) ==
    IF st = Running THEN ErrAlreadyRunning
    ELSE IF st = Finished \/ st.tag = "Failed" THEN ErrAlreadyCompleted
    ELSE <<>>

\* a start() that clones the callable and the Sender out of their slots
SpawnTakeLeaves(slot, empty) == slot

\* lines 222 and 226, Option::take() on the process and result_sender slots:
\* what the slot holds afterwards
SpawnTake(slot, empty) == empty

\* the status start() leaves behind when it has spawned the thread: start()
\* itself writes nothing, the spawned closure sets Running on its own
StatusAfterSpawn(st) == st

\* a caller begins a call on world t: a world not yet given to the registry,
\* or one it got an Arc<World> of from get() while the world was registered
Call(c, op, t, run) ==
    /\ cl[c].pc = "idle"
    /\ t \in made \ lost
    /\ cl' = [cl EXCEPT ![c] = [Idle EXCEPT !.pc = op, !.t = t, !.run = run,
                                            !.after = startOk[t],
                                            !.late = Retrieved(t)]]
    /\ ret' = NoRes
    /\ UNCHANGED <<taskVars, regVars, histVars>>
    /\ UNCHANGED typedWait

CallStart(c, t) == Call(c, "start", t, FALSE)
CallRun(c, t) == Call(c, "start", t, TRUE)
CallStop(c, t) == Call(c, "stop", t, FALSE)
CallProgress(c, t) == Call(c, "progress", t, FALSE)
CallStatus(c, t) == Call(c, "wait", t, FALSE)

\* lines 211-254: lock status, check it, take the callable and the sender,
\* spawn the thread; the status guard lives until start() returns
StartBegin(c) ==
    LET t == cl[c].t IN
    /\ cl[c].pc = "start"
    /\ statusLock[t] = NoOwner
    /\ IF StartRefusal(status[t]) # <<>>
       THEN /\ Return(c, "start", Err(StartRefusal(status[t])), "none")
            /\ UNCHANGED <<taskVars, regVars, histVars>>
       ELSE IF process[t] = NoProcess
       THEN /\ Return(c, "start", Err(ErrNoProcess), "none")
            /\ UNCHANGED <<taskVars, regVars, histVars>>
       ELSE IF ~result_sender[t]
       THEN /\ process' = [process EXCEPT ![t] = SpawnTake(@, NoProcess)]
            /\ Return(c, "start", Err(ErrNoSender), "none")
            /\ UNCHANGED <<status, thread_handle, result_sender, result_receiver,
                           chan, statusLock, handleLock, tpc, job, work,
                           regVars, histVars>>
       ELSE /\ process' = [process EXCEPT ![t] = SpawnTake(@, NoProcess)]
            /\ result_sender' = [result_sender EXCEPT ![t] = SpawnTake(@, FALSE)]
            /\ job' = [job EXCEPT ![t] = process[t]]
            /\ tpc' = [tpc EXCEPT ![t] = "spawned"]
            /\ status' = [status EXCEPT ![t] = StatusAfterSpawn(status[t])]
            /\ statusLock' = [statusLock EXCEPT ![t] = c]
            /\ cl' = [cl EXCEPT ![c].pc = "start_handle"]
            /\ UNCHANGED <<thread_handle, result_receiver, chan, handleLock,
                           work, regVars, histVars>>
            /\ ret' = NoRes
    /\ UNCHANGED typedWait

\* lines 256-258: store the JoinHandle, return Ok, release both guards
StartSetHandle(c) ==
    LET t == cl[c].t IN
    /\ cl[c].pc = "start_handle"
    /\ handleLock[t] = NoOwner
    /\ thread_handle' = [thread_handle EXCEPT ![t] = TRUE]
    /\ statusLock' = [statusLock EXCEPT ![t] = NoOwner]
    /\ startOk' = [startOk EXCEPT ![t] = TRUE]
    /\ Return(c, "start", Ok(Unit), "none")
    /\ UNCHANGED <<process, status, result_sender, result_receiver, chan,
                   handleLock, tpc, job, work, regVars, calls, okWaits,
                   delivered>>
    /\ UNCHANGED typedWait

\* ------------------------------------------------------ the spawned thread
\* lines 234-238: set Running under the status lock, then call process_fn
ThreadRun(t) ==
    /\ tpc[t] = "spawned"
    /\ statusLock[t] = NoOwner
    /\ status' = [status EXCEPT ![t] = Running]
    /\ tpc' = [tpc EXCEPT ![t] = "running"]
    /\ calls' = [calls EXCEPT ![t] = @ + 1]
    /\ UNCHANGED <<process, thread_handle, result_sender, result_receiver,
                   chan, statusLock, handleLock, job, work, regVars, cl,
                   startOk, okWaits, delivered>>
    /\ ret' = NoRes
    /\ UNCHANGED typedWait

\* one step of the callable's own work
CallableStep(t) ==
    /\ tpc[t] = "running"
    /\ work[t] < WorkSteps
    /\ work' = [work EXCEPT ![t] = @ + 1]
    /\ UNCHANGED <<process, status, thread_handle, result_sender,
                   result_receiver, chan, statusLock, handleLock, tpc, job,
                   regVars, cl, histVars>>
    /\ ret' = NoRes
    /\ UNCHANGED typedWait

\* a normal return that sets Finished whatever the status was
StatusOnReturnAlways(st) == Finished

\* line 241-243: a normal return sets Finished unless Stopped was set
StatusOnReturn(st) == IF st # Stopped THEN Finished ELSE st

\* a panic branch that stores the bare payload in Failed
StatusOnPanicBare(st, fn) == Failed(fn.msg)

\* lines 247-249: a panic sets Failed with the formatted message
StatusOnPanic(st, fn) == Failed(PanicMessage(fn.msg))

\* a closure that leaves the status alone and goes on to send
OutcomeStatusLater(all, t, fn) == all

\* a status cell shared by every world
OutcomeStatusShared(all, t, fn) ==
    [u \in Tasks |-> IF fn.kind = "ret" THEN IF all[u] # Stopped THEN Finished ELSE all[u]
                     ELSE Failed(<<"Thread panicked: ">> \o <<"Any { .. }">>)]

\* the statuses after the closure of world t has caught its callable's end:
\* status_clone is the Arc of world t alone
OutcomeStatus(all, t, fn) ==
    [all EXCEPT ![t] = IF fn.kind = "ret" THEN StatusOnReturn(all[t])
                       ELSE StatusOnPanic(all[t], fn)]

\* lines 238-252: catch_unwind returns, the status is updated under its lock
ThreadOutcome(t) ==
    /\ tpc[t] = "running"
    /\ work[t] = WorkSteps
    /\ statusLock[t] = NoOwner
    /\ status' = OutcomeStatus(status, t, job[t])
    /\ tpc' = [tpc EXCEPT ![t] = "send"]
    /\ UNCHANGED <<process, thread_handle, result_sender, result_receiver,
                   chan, statusLock, handleLock, job, work, regVars, cl,
                   histVars>>
    /\ ret' = NoRes
    /\ UNCHANGED typedWait

\* line 253: let _ = result_sender.send(result)
ThreadSend(t) ==
    /\ tpc[t] = "send"
    /\ chan' = [chan EXCEPT ![t] =
                   IF ReceiverAlive(t) THEN Append(@, ThreadResult(job[t])) ELSE @]
    /\ tpc' = [tpc EXCEPT ![t] = "exit"]
    /\ UNCHANGED <<process, status, thread_handle, result_sender,
                   result_receiver, statusLock, handleLock, job, work,
                   regVars, cl, histVars>>
    /\ ret' = NoRes
    /\ UNCHANGED typedWait

\* line 254: the closure ends, its Sender is dropped, the thread terminates
ThreadExit(t) ==
    /\ tpc[t] = "exit"
    /\ tpc' = [tpc EXCEPT ![t] = "done"]
    /\ UNCHANGED <<process, status, thread_handle, result_sender,
                   result_receiver, chan, statusLock, handleLock, job, work,
                   regVars, cl, histVars>>
    /\ ret' = NoRes
    /\ UNCHANGED typedWait

\* ------------------------------------------------------------- World::stop
\* a stop() that refuses a Ready world only
StopRefusalReady(st) ==
    IF st = Ready THEN <<"World is not running or already stopped.">> ELSE <<>>

\* lines 317-319: the check made under the status lock
StopRefusal(st) == IF st # Running THEN ErrNotRunning ELSE <<>>

\* lines 316-321: only a Running world is stopped; the guard is dropped
StopBegin(c) ==
    LET t == cl[c].t IN
    /\ cl[c].pc = "stop"
    /\ statusLock[t] = NoOwner
    /\ IF StopRefusal(status[t]) # <<>>
       THEN /\ Return(c, "stop", Err(StopRefusal(status[t])), "none")
            /\ UNCHANGED <<taskVars, regVars, histVars>>
       ELSE /\ status' = [status EXCEPT ![t] = Stopped]
            /\ cl' = [cl EXCEPT ![c].pc = "stop_handle"]
            /\ UNCHANGED <<process, thread_handle, result_sender,
                           result_receiver, chan, statusLock, handleLock,
                           tpc, job, work, regVars, histVars>>
            /\ ret' = NoRes
    /\ UNCHANGED typedWait

\* lines 325-331: drop the JoinHandle (detach) and empty the sender slot
StopDetach(c) ==
    LET t == cl[c].t IN
    /\ cl[c].pc = "stop_handle"
    /\ handleLock[t] = NoOwner
    /\ thread_handle' = [thread_handle EXCEPT ![t] = FALSE]
    /\ result_sender' = [result_sender EXCEPT ![t] = FALSE]
    /\ Return(c, "stop", Ok(Unit), "none")
    /\ UNCHANGED <<process, status, result_receiver, chan, statusLock,
                   handleLock, tpc, job, work, regVars, histVars>>
    /\ UNCHANGED typedWait

\* --------------------------------------------------------- World::progress
\* a progress() that reads the status under the thread_handle mutex
ProgressBehindHandle(c) ==
    /\ cl[c].pc = "progress"
    /\ statusLock[cl[c].t] = NoOwner
    /\ handleLock[cl[c].t] = NoOwner
    /\ cl' = [cl EXCEPT ![c] = Idle]
    /\ ret' = [NoRes EXCEPT !.c = c, !.op = "progress", !.t = cl[c].t, !.ok = TRUE,
                                !.st = status[cl[c].t], !.after = cl[c].after,
                                !.late = cl[c].late]
    /\ UNCHANGED <<taskVars, regVars, histVars>>
    /\ UNCHANGED typedWait

\* line 336: a clone of the status, read under its lock
Progress(c) ==
    LET t == cl[c].t IN
    /\ cl[c].pc = "progress"
    /\ statusLock[t] = NoOwner
    /\ cl' = [cl EXCEPT ![c] = Idle]
    /\ ret' = [NoRes EXCEPT !.c = c, !.op = "progress", !.t = t, !.ok = TRUE,
                                !.st = status[t], !.after = cl[c].after,
                                !.late = cl[c].late]
    /\ UNCHANGED <<taskVars, regVars, histVars>>
    /\ UNCHANGED typedWait

\* ----------------------------------------------------------- World::status
\* a status() that leaves the Receiver in its slot
TakeReceiverLeaves(r) == r

\* receiver_opt.take(): what the slot holds afterwards
TakeReceiver(r) == FALSE

\* lines 375-376 and 400: with the Receiver go on to recv(), without it to
\* the answer read from the status
AfterJoin(c, t) ==
    IF result_receiver[t]
    THEN /\ result_receiver' = [result_receiver EXCEPT ![t] = TakeReceiver(@)]
         /\ cl' = [cl EXCEPT ![c].pc = "recv"]
    ELSE /\ result_receiver' = result_receiver
         /\ cl' = [cl EXCEPT ![c].pc = "no_receiver"]

\* lines 365-366: lock thread_handle and take the JoinHandle; the guard lives
\* until status() returns
StatusLockHandle(c) ==
    LET t == cl[c].t IN
    /\ cl[c].pc = "wait"
    /\ handleLock[t] = NoOwner
    /\ handleLock' = [handleLock EXCEPT ![t] = c]
    /\ IF thread_handle[t]
       THEN /\ thread_handle' = [thread_handle EXCEPT ![t] = FALSE]
            /\ cl' = [cl EXCEPT ![c].pc = "join"]
            /\ UNCHANGED result_receiver
       ELSE /\ UNCHANGED thread_handle
            /\ AfterJoin(c, t)
    /\ UNCHANGED <<process, status, result_sender, chan, statusLock, tpc,
                   job, work, regVars, histVars>>
    /\ ret' = NoRes
    /\ UNCHANGED typedWait

\* a join() that never learns of the thread's end
TerminatedNever(t) == FALSE

\* the spawned thread has run to its end: what JoinHandle::join waits for
Terminated(t) == tpc[t] = "done"

\* lines 369-371: join() returns when the thread has terminated; the closure
\* catches the callable's panic, so the thread itself never panics
StatusJoin(c) ==
    LET t == cl[c].t IN
    /\ cl[c].pc = "join"
    /\ Terminated(t)
    /\ AfterJoin(c, t)
    /\ UNCHANGED <<process, status, thread_handle, result_sender, chan,
                   statusLock, handleLock, tpc, job, work, regVars, histVars>>
    /\ ret' = NoRes
    /\ UNCHANGED typedWait

\* lines 381-397: the answer when recv() failed
NoMessage(st) ==
    IF st = Finished THEN ErrNotSent
    ELSE IF st.tag = "Failed" THEN st.reason
    ELSE IF st = Stopped THEN ErrStopped
    ELSE IF st = Killed THEN ErrKilled
    ELSE ErrUnexpected(st)

\* lines 402-410: the answer when the Receiver was taken before
NoReceiver(st) ==
    IF st = Finished THEN ErrRetrieved
    ELSE IF st.tag = "Failed" THEN st.reason
    ELSE ErrNotAvailable(st)

\* lines 377-399: recv() blocks until a message is in the channel or every
\* Sender is gone
StatusRecv(c) ==
    LET t == cl[c].t IN
    /\ cl[c].pc = "recv"
    /\ IF chan[t] # <<>>
       THEN /\ chan' = [chan EXCEPT ![t] = Tail(@)]
            /\ okWaits' = [okWaits EXCEPT ![t] = IF Head(chan[t]).ok THEN @ + 1 ELSE @]
            /\ delivered' = [delivered EXCEPT ![t] = TRUE]
            /\ Return(c, "wait", Head(chan[t]), "chan")
       ELSE /\ Disconnected(t)
            /\ statusLock[t] = NoOwner
            /\ UNCHANGED <<chan, okWaits, delivered>>
            /\ Return(c, "wait", Err(NoMessage(status[t])), "closed")
    /\ handleLock' = [handleLock EXCEPT ![t] = NoOwner]
    /\ UNCHANGED <<process, status, thread_handle, result_sender,
                   result_receiver, statusLock, tpc, job, work, regVars, calls,
                   startOk>>
    /\ UNCHANGED typedWait

\* lines 400-411
StatusNoReceiver(c) ==
    LET t == cl[c].t IN
    /\ cl[c].pc = "no_receiver"
    /\ statusLock[t] = NoOwner
    /\ handleLock' = [handleLock EXCEPT ![t] = NoOwner]
    /\ Return(c, "wait", Err(NoReceiver(status[t])), "taken")
    /\ UNCHANGED <<process, status, thread_handle, result_sender,
                   result_receiver, chan, statusLock, tpc, job, work, regVars,
                   histVars>>
    /\ UNCHANGED typedWait

\* ---------------------------------------------------------- ParallelWorlds
\* the ids in the map
Registered == {i \in Ids : worlds[i] # NoWorld}

\* the value a registry call returns at once
RegReturn(c, op, id, r) ==
    /\ cl' = [cl EXCEPT ![c] = Idle]
    /\ ret' = [NoRes EXCEPT !.c = c, !.op = op, !.id = id, !.ok = r.ok,
                                               !.err = r.err]

\* a map that reports every key as absent
ContainsKeyNever(map, id) == FALSE

\* worlds_guard.contains_key(&id)
ContainsKey(map, id) == map[id] # NoWorld

\* worlds_guard.insert(id, Arc::new(world)): the map afterwards
Insert(map, id, t) == [map EXCEPT ![id] = t]

\* lines 66-73: the world is moved into add(), which no borrow of it may
\* outlive; with a known id the world is dropped
Add(c, id, t) ==
    /\ cl[c].pc = "idle"
    /\ t \in made \ moved
    /\ \A d \in Clients : cl[d].t # t
    /\ worldsLock = NoOwner
    /\ moved' = moved \cup {t}
    /\ IF ContainsKey(worlds, id)
       THEN /\ UNCHANGED worlds
            /\ lost' = lost \cup {t}
            /\ RegReturn(c, "add", id, Err(ErrExists(id)))
       ELSE /\ worlds' = Insert(worlds, id, t)
            /\ UNCHANGED lost
            /\ RegReturn(c, "add", id, Ok(Unit))
    /\ UNCHANGED <<taskVars, made, worldsLock, histVars>>
    /\ UNCHANGED typedWait

\* lines 110-111 and 118: lock the map and look the id up; the guard lives
\* until del() returns
DelLock(c, id) ==
    /\ cl[c].pc = "idle"
    /\ worldsLock = NoOwner
    /\ IF worlds[id] = NoWorld
       THEN /\ RegReturn(c, "del", id, Err(ErrNotFound(id)))
            /\ UNCHANGED worldsLock
       ELSE /\ cl' = [cl EXCEPT ![c] = [Idle EXCEPT !.pc = "del", !.t = worlds[id]]]
            /\ ret' = NoRes
            /\ worldsLock' = c
    /\ UNCHANGED <<taskVars, made, worlds, moved, lost, histVars>>
    /\ UNCHANGED typedWait

\* the id del() is working on
DelId(c) == CHOOSE i \in Ids : worlds[i] = cl[c].t

\* worlds_guard.remove(id): the map afterwards
Remove(map, id) == [map EXCEPT ![id] = NoWorld]

\* a remove() that destroys the world with the entry
RemoveDropsWorld(dropped, t) == dropped \cup {t}

\* worlds_guard.remove(id) drops the map's Arc<World> and no more: the world
\* lives on in the clones that get() returned, so the dropped worlds are as
\* before
AfterRemove(dropped, t) == dropped

\* line 112: whether del() refuses a world of this status
DelRefused(st) == st = Running

\* lines 112-116: a Running world is not removed
DelCheck(c) ==
    LET t == cl[c].t
        id == DelId(c) IN
    /\ cl[c].pc = "del"
    /\ statusLock[t] = NoOwner
    /\ IF DelRefused(status[t])
       THEN /\ UNCHANGED <<worlds, lost>>
            /\ RegReturn(c, "del", id, Err(ErrDelRunning(id)))
       ELSE /\ worlds' = Remove(worlds, id)
            /\ lost' = AfterRemove(lost, t)
            /\ RegReturn(c, "del", id, Ok(Unit))
    /\ worldsLock' = NoOwner
    /\ UNCHANGED <<taskVars, made, moved, histVars>>
    /\ UNCHANGED typedWait

\* lines 139-141
List(c) ==
    /\ cl[c].pc = "idle"
    /\ worldsLock = NoOwner
    /\ cl' = [cl EXCEPT ![c] = Idle]
    /\ ret' = [NoRes EXCEPT !.c = c, !.op = "list", !.ok = TRUE,
                                               !.ids = Registered]
    /\ UNCHANGED <<taskVars, regVars, histVars>>
    /\ UNCHANGED typedWait

\* lines 168-170: a clone of the Arc, or None
Get(c, id) ==
    /\ cl[c].pc = "idle"
    /\ worldsLock = NoOwner
    /\ cl' = [cl EXCEPT ![c] = Idle]
    /\ ret' = [NoRes EXCEPT !.c = c, !.op = "get", !.id = id,
                                               !.ok = worlds[id] # NoWorld,
                                               !.t = worlds[id]]
    /\ UNCHANGED <<taskVars, regVars, histVars>>
    /\ UNCHANGED typedWait

\* a registry that answers Ok for an id it does not know
RegCallAnswers(c, name, op, id) ==
    /\ cl[c].pc = "idle"
    /\ worldsLock = NoOwner
    /\ IF worlds[id] = NoWorld
       THEN RegReturn(c, name, id, [ok |-> TRUE, val |-> 0, err |-> <<>>])
       ELSE /\ cl' = [cl EXCEPT ![c] = [Idle EXCEPT !.pc = op, !.t = worlds[id],
                                                   !.after = startOk[worlds[id]],
                                                   !.late = delivered[worlds[id]]]]
            /\ ret' = NoRes
    /\ UNCHANGED <<taskVars, regVars, histVars>>
    /\ UNCHANGED typedWait

\* exec, kill, progress and status: self.get(id), then the world's own
\* method on the Arc, or the not-found error
RegCall(c, name, op, id) ==
    /\ cl[c].pc = "idle"
    /\ worldsLock = NoOwner
    /\ IF worlds[id] = NoWorld
       THEN RegReturn(c, name, id, Err(ErrNotFound(id)))
       ELSE /\ cl' = [cl EXCEPT ![c] = [Idle EXCEPT !.pc = op, !.t = worlds[id],
                                                   !.after = startOk[worlds[id]],
                                                   !.late = Retrieved(worlds[id])]]
            /\ ret' = NoRes
    /\ UNCHANGED <<taskVars, regVars, histVars>>
    /\ UNCHANGED typedWait

\* lines 241-247
Exec(c, id) == RegCall(c, "exec", "start", id)
\* lines 332-341
Kill(c, id) == RegCall(c, "kill", "stop", id)
\* lines 370-376
RegProgress(c, id) == RegCall(c, "progress", "progress", id)
\* lines 420-426
RegStatus(c, id) == RegCall(c, "status", "wait", id)

\* lines 201 and 284: start_all and stop_all lock the map for the whole loop
BulkLock(c, loop) ==
    /\ cl[c].pc = "idle"
    /\ worldsLock = NoOwner
    /\ worldsLock' = c
    /\ cl' = [cl EXCEPT ![c] = [Idle EXCEPT !.pc = loop, !.bulk = loop,
                                            !.todo = Registered]]
    /\ ret' = NoRes
    /\ UNCHANGED <<taskVars, made, worlds, moved, lost, histVars>>
    /\ UNCHANGED typedWait

StartAll(c) == BulkLock(c, "start_all")
StopAll(c) == BulkLock(c, "stop_all")

\* the loop takes the map's next entry (in the HashMap's order, which is
\* arbitrary), or ends and releases the map
BulkNext(c) ==
    /\ cl[c].pc \in {"start_all", "stop_all"}
    /\ IF cl[c].todo = {}
       THEN /\ worldsLock' = NoOwner
            /\ cl' = [cl EXCEPT ![c] = Idle]
            /\ ret' = [NoRes EXCEPT !.c = c, !.op = cl[c].pc, !.ok = TRUE]
       ELSE /\ \E id \in cl[c].todo :
                 cl' = [cl EXCEPT ![c].pc = "bulk_check", ![c].t = worlds[id],
                                  ![c].todo = @ \ {id}]
            /\ UNCHANGED worldsLock
            /\ ret' = NoRes
    /\ UNCHANGED <<taskVars, made, worlds, moved, lost, histVars>>
    /\ UNCHANGED typedWait

\* loops that both look for Running worlds
BulkWantedRunning(loop) == Running

\* loops that both look for Ready worlds
BulkWantedReady(loop) == Ready

\* lines 203 and 286: the status that makes the loop call start() or stop()
BulkWanted(loop) == IF loop = "start_all" THEN Ready ELSE Running

\* lines 203-205 and 286-288: progress() of the entry, then the call
BulkCheck(c) ==
    LET t == cl[c].t IN
    /\ cl[c].pc = "bulk_check"
    /\ statusLock[t] = NoOwner
    /\ cl' = [cl EXCEPT ![c] =
                 IF status[t] = BulkWanted(cl[c].bulk)
                 THEN [cl[c] EXCEPT !.pc = IF cl[c].bulk = "start_all"
                                           THEN "start" ELSE "stop"]
                 ELSE [cl[c] EXCEPT !.pc = cl[c].bulk, !.t = NoTask]]
    /\ UNCHANGED <<taskVars, regVars, histVars>>
    /\ ret' = NoRes
    /\ UNCHANGED typedWait

\* ------------------------------------------------- the type-erased wait
\* the result types of the worlds of main.rs and their values: a value knows
\* its type, and v is its representation
Types == {"i32", "String", "bool"}
TypedVals == [ty : Types, v : 0..MaxInt]

\* what World<R>::status() can return: Ok(r), or Err of one of its texts
TypedResults ==
    {OkOf(x) : x \in TypedVals} \cup {ErrOf(PanicMessage(m)) : m \in Msgs}

\* an any_status() that boxes () in place of the result
AnyStatusUnit(r) == [r EXCEPT !.val = BoxAny(UnitVal)]

\* world.rs lines 448-450: self.status().map(|r| Box::new(r) as Box<dyn Any + Send>);
\* an Err keeps its text
AnyStatus(r) == [r EXCEPT !.val = BoxAny(@)]

\* the error of a typed wait that asked for another type
ErrTypeMismatch == <<"TypeMismatch">>

\* the runtime-checked recovery of the concrete type T from the opaque value
Downcast(b, T) ==
    IF b.type_id = T THEN OkOf([ty |-> T, v |-> b.data]) ELSE ErrOf(ErrTypeMismatch)

\* wait<T>(): the opaque wait, then the recovery of T; an Err passes through
TypedWait(r, T) == IF r.ok THEN Downcast(r.val, T) ELSE ErrOf(r.err)

\* the caller asks for type T the result of a world whose status() returns res
InitTyped ==
    /\ InitWith({}, {})
    /\ typedWait \in {[NoTypedWait EXCEPT !.pc = "call", !.res = r, !.asked = T] :
                         r \in TypedResults, T \in Types}

\* the opaque wait returns the boxed result
AnyStatusCall ==
    /\ typedWait.pc = "call"
    /\ typedWait' = [typedWait EXCEPT !.pc = "boxed", !.any = AnyStatus(typedWait.res)]
    /\ UNCHANGED <<taskVars, regVars, cl, ret, histVars>>

\* the typed wait returns the recovered value or the error
TypedStatusReturn ==
    /\ typedWait.pc = "boxed"
    /\ typedWait' = [typedWait EXCEPT !.pc = "done",
                                      !.out = TypedWait(typedWait.any, typedWait.asked)]
    /\ UNCHANGED <<taskVars, regVars, cl, ret, histVars>>

NextTyped == AnyStatusCall \/ TypedStatusReturn

\* ------------------------------------------------------------ properties
\* whether the text d contains the text m
Contains(d, m) ==
    \E i \in 1..(Len(d) + 1) :
        i + Len(m) - 1 <= Len(d) /\ SubSeq(d, i, i + Len(m) - 1) = m

\* the callable of world t has been called and has not come to its end
Executing(t) == tpc[t] \in {"spawned", "running"}

\* C1: whatever start(), run(), exec(id) and start_all() calls are made, from
\* whatever threads, the callable of a world is invoked at most once.
C1_CallableInvokedAtMostOnce == \A t \in Tasks : calls[t] <= 1

\* a start() refused on a world whose callable has been invoked
C1_Witness ==
    /\ ret.op = "start"
    /\ ~ret.ok
    /\ ret.after
    /\ calls[ret.t] = 1

\* C2: once start() has returned Ok (also through exec or start_all), the
\* status is Running already: no later progress() returns Ready.
C2_ProgressAfterStartNotReady ==
    (ret.op = "progress" /\ ret.after) => ret.st # Ready

\* C3: a start() made after start() returned Ok, while the callable has not
\* completed, returns the AlreadyRunning error and no other.
C3_SecondStartAlreadyRunning ==
    (ret.op = "start" /\ ret.after /\ Executing(ret.t))
        => (~ret.ok /\ ret.err = ErrAlreadyRunning)

\* C4: status() returns Ok only when the world's status is Finished; on a
\* Stopped world it returns Err and the callable's value is never delivered.
C4_WaitOkOnlyWhenFinished ==
    (ret.op = "wait" /\ ret.ok) => status[ret.t] = Finished

\* C5: status() on a world that was never started returns Err and does not
\* block: a caller inside recv() on such a world finds a message or a closed
\* channel.
C5_WaitOnNeverStartedDoesNotBlock ==
    /\ \A c \in Clients :
          (cl[c].pc = "recv" /\ tpc[cl[c].t] = "none" /\ status[cl[c].t] = Ready)
              => (chan[cl[c].t] # <<>> \/ Disconnected(cl[c].t))
    /\ (ret.op = "wait" /\ tpc[ret.t] = "none") => ~ret.ok

\* C6: the result is delivered at most once: at most one status() call on a
\* world returns Ok, and a status() call issued after the result was
\* retrieved returns Err without waiting in join() or recv().
C6_ResultDeliveredAtMostOnce ==
    /\ \A t \in Tasks : okWaits[t] <= 1
    /\ \A c \in Clients : cl[c].late => cl[c].pc \notin {"join", "recv"}
    /\ (ret.op = "wait" /\ ret.late) => ~ret.ok

\* a second status() has returned Err after the first returned Ok
C6_Witness ==
    /\ ret.op = "wait"
    /\ ret.late
    /\ ~ret.ok
    /\ okWaits[ret.t] = 1

\* C7: when the callable returns v and the world is not stopped, the
\* status() call that follows a successful start() and takes the Receiver
\* returns Ok(v), and the status is Finished when it returns.
C7_StartWaitYieldsValue ==
    (/\ ret.op = "wait"
     /\ ret.after
     /\ ret.src \in {"chan", "closed"}
     /\ job[ret.t].kind = "ret"
     /\ status[ret.t] # Stopped)
        => (ret.ok /\ ret.val = job[ret.t].val /\ status[ret.t] = Finished)

\* start() then status() has returned the callable's value
C7_Witness ==
    /\ ret.op = "wait"
    /\ ret.after
    /\ ret.ok
    /\ job[ret.t] \in {Returns(v) : v \in Vals}
    /\ ret.val = job[ret.t].val
    /\ status[ret.t] = Finished

\* C8: when the callable panics, a status() call that follows a successful
\* start() returns Err, the status is Failed(d) when it returns, and the Err
\* carries the same d.
C8_PanicYieldsFailed ==
    (ret.op = "wait" /\ ret.after /\ job[ret.t].kind = "panic")
        => (/\ ~ret.ok
            /\ status[ret.t].tag = "Failed"
            /\ ret.err = status[ret.t].reason)

\* start() then status() on a panicking callable has returned the message
\* sent through the channel
C8_Witness ==
    /\ ret.op = "wait"
    /\ ret.after
    /\ ret.src = "chan"
    /\ job[ret.t].kind = "panic"
    /\ ~ret.ok
    /\ status[ret.t] = Failed(ret.err)

\* C9: when the callable panics with message m, the text stored in Failed
\* and the text status() returns contain m.
C9_DiagnosticContainsMessage ==
    /\ \A t \in Tasks :
          (job[t].kind = "panic" /\ status[t].tag = "Failed")
              => Contains(status[t].reason, job[t].msg)
    /\ (ret.op = "wait" /\ ret.src = "chan" /\ job[ret.t].kind = "panic")
          => Contains(ret.err, job[ret.t].msg)

\* the closure of world t catches its callable's panic in this step
PanicStep(t) ==
    /\ tpc[t] = "running"
    /\ tpc'[t] = "send"
    /\ job[t].kind = "panic"

\* C10: a panic of one world's callable sets that world's status to Failed
\* and changes nothing else: the other worlds, the registry's map, every
\* mutex and every caller are as before, so the owner's later calls go on.
C10_PanicConfined ==
    [][\A t \in Tasks :
          PanicStep(t) =>
              /\ status'[t].tag = "Failed"
              /\ \A u \in Tasks \ {t} : status'[u] = status[u]
              /\ UNCHANGED <<process, thread_handle, result_sender,
                             result_receiver, chan, statusLock, handleLock,
                             job, worlds, worldsLock, cl>>]_vars

\* one registered world has failed while another is Running, and the owner's
\* next call has returned
C10_Witness ==
    /\ \E i, j \in Ids :
          /\ worlds[i] # NoWorld
          /\ worlds[j] # NoWorld
          /\ status[worlds[i]].tag = "Failed"
          /\ status[worlds[j]] = Running
    /\ ret.op = "list"
    /\ Cardinality(ret.ids) = 2

\* the fields of a world and the count of its callable's invocations
WorldState(t) ==
    <<process[t], status[t], thread_handle[t], result_sender[t],
      result_receiver[t], chan[t], tpc[t], job[t], calls[t]>>

\* caller c is inside call op and makes its first step
FirstStep(c, op) == cl[c].pc = op /\ cl'[c].pc # op

\* C11: start() on a world whose status is Finished or Failed returns the
\* AlreadyCompleted error and leaves the status, the callable slot, the thread
\* handle and the channel as they were; no thread is spawned.
C11_StartOnCompletedRefused ==
    [][\A c \in Clients, t \in Tasks :
          (/\ FirstStep(c, "start")
           /\ cl[c].t = t
           /\ (status[t] = Finished \/ status[t].tag = "Failed"))
              => /\ WorldState(t)' = WorldState(t)
                 /\ cl[c].bulk = "none"
                       => (/\ ret'.op = "start"
                           /\ ~ret'.ok
                           /\ ret'.err = ErrAlreadyCompleted)]_vars

\* start() has been refused on a Finished world, which is still Finished
C11_Witness ==
    /\ ret.op = "start"
    /\ ret.err = ErrAlreadyCompleted
    /\ status[ret.t] = Finished
    /\ calls[ret.t] = 1

\* C12: start() on a world whose callable slot is empty and whose status is
\* not Running, Finished or Failed returns the NoCallable error, spawns no
\* thread and leaves the status as it was; start() on a Stopped world always
\* does so.
C12_StartWithoutCallableRefused ==
    [][\A c \in Clients, t \in Tasks :
          (/\ FirstStep(c, "start")
           /\ cl[c].t = t
           /\ \/ status[t] = Stopped
              \/ /\ process[t] = NoProcess
                 /\ status[t] = Ready)
              => /\ WorldState(t)' = WorldState(t)
                 /\ cl[c].bulk = "none"
                       => (/\ ret'.op = "start"
                           /\ ~ret'.ok
                           /\ ret'.err = ErrNoProcess)]_vars

\* start() has been refused on a Stopped world
C12_Witness ==
    /\ ret.op = "start"
    /\ ret.err = ErrNoProcess
    /\ status[ret.t] = Stopped

\* C13: stop() on a world whose status is not Running returns the NotRunning
\* error and leaves the status, the thread handle and the channel as they
\* were.
C13_StopOnNotRunningRefused ==
    [][\A c \in Clients, t \in Tasks :
          (FirstStep(c, "stop") /\ cl[c].t = t /\ status[t] # Running)
              => /\ WorldState(t)' = WorldState(t)
                 /\ cl[c].bulk = "none"
                       => (/\ ret'.op = "stop"
                           /\ ~ret'.ok
                           /\ ret'.err = ErrNotRunning)]_vars

\* stop() has been refused on a world that had completed, with its handle
\* still in place
C13_Witness ==
    /\ ret.op = "stop"
    /\ ret.err = ErrNotRunning
    /\ status[ret.t] = Finished
    /\ thread_handle[ret.t]

\* caller d is inside status() and cannot go on before the spawned thread
\* of its world does: join() on a thread that has not ended, or recv() on an
\* empty channel whose Sender is alive
WaitsForThread(d) ==
    \/ cl[d].pc = "join" /\ ~Terminated(cl[d].t)
    \/ cl[d].pc = "recv" /\ chan[cl[d].t] = <<>> /\ ~Disconnected(cl[d].t)

\* C14: stop() never waits for the callable: a caller inside stop() is never
\* kept from the thread_handle mutex by a status() call that is itself
\* waiting for the world's thread.
C14_StopNeverBlocks ==
    \A c \in Clients :
        cl[c].pc = "stop_handle"
            => ~\E d \in Clients :
                  /\ handleLock[cl[c].t] = d
                  /\ WaitsForThread(d)

\* C15: start() never waits for the callable, also when status() was called
\* on the world before: no state has start() waiting for the thread_handle
\* mutex, the status() call that owns it waiting for the thread's message,
\* and the thread waiting for the status mutex that start() owns.
C15_StartNeverBlocks ==
    \A c \in Clients :
        cl[c].pc = "start_handle"
            => ~\E d \in Clients :
                  /\ handleLock[cl[c].t] = d
                  /\ WaitsForThread(d)
                  /\ tpc[cl[c].t] = "spawned"
                  /\ statusLock[cl[c].t] = c

\* the status changes of section 4.1
AllowedTransitions ==
    {<<"Ready", "Running">>, <<"Running", "Finished">>,
     <<"Running", "Failed">>, <<"Running", "Stopped">>}

\* C16: the status of a world changes only from Ready to Running and from
\* Running to Finished, Failed or Stopped.
C16_StatusTransitions ==
    [][\A t \in Tasks :
          status'[t] # status[t]
              => <<status[t].tag, status'[t].tag>> \in AllowedTransitions]_vars

\* C17: when stop() has set Stopped before the callable returns normally, the
\* status stays Stopped: it never becomes Finished, and the return of the
\* callable leaves it as it is.
C17_StopTakesPrecedence ==
    [][\A t \in Tasks :
          status[t] = Stopped
              => /\ status'[t] # Finished
                 /\ job[t].kind = "ret" => status'[t] = Stopped]_vars

\* a stopped world whose callable has returned and whose thread has ended
C17_Witness ==
    \E t \in Tasks :
        /\ status[t] = Stopped
        /\ job[t].kind = "ret"
        /\ work[t] = WorkSteps
        /\ tpc[t] = "done"

\* C18: stop() is only a signal: when it has returned Ok the status is
\* Stopped, and the thread of a Stopped world is not ended by it: the steps
\* the callable has left can still be taken.
C18_StopIsOnlyASignal ==
    /\ (ret.op = "stop" /\ ret.ok) => status[ret.t] = Stopped
    /\ \A t \in Tasks :
          (status[t] = Stopped /\ tpc[t] = "running" /\ work[t] < WorkSteps)
              => ENABLED CallableStep(t)

\* C19: when status() returns Ok the thread of the world has ended, also
\* when stop() dropped the JoinHandle before.
C19_WaitOkThreadTerminated ==
    (ret.op = "wait" /\ ret.ok) => Terminated(ret.t)

\* the positions of a caller inside status()
WaitPcs == {"wait", "join", "recv", "no_receiver"}

\* C20: when start() has returned Ok and the callable comes to its end, every
\* status() call made afterwards returns in the end, whether or not stop()
\* was called in between.
C20_WaitEventuallyReturns ==
    \A c \in Clients :
        (cl[c].after /\ cl[c].pc \in WaitPcs) ~> (cl[c].pc \notin WaitPcs)

\* a status() call made after start() and after stop() has returned what the
\* thread sent
C20_Witness ==
    /\ ret.op = "wait"
    /\ ret.after
    /\ ret.src = "chan"
    /\ status[ret.t] = Stopped
    /\ Terminated(ret.t)

\* C21: add(id, world) with an id that is in the map returns the DuplicateId
\* error and leaves the map as it was, the id still naming the world added
\* first; with an id that is not in the map it inserts the world and returns
\* Ok, the other entries unchanged.
C21_AddDuplicateRefused ==
    [][\A id \in Ids :
          (ret'.op = "add" /\ ret'.id = id)
              => IF worlds[id] # NoWorld
                 THEN /\ ~ret'.ok
                      /\ ret'.err = ErrExists(id)
                      /\ worlds' = worlds
                 ELSE /\ ret'.ok
                      /\ moved' \ moved = {worlds'[id]}
                      /\ \A j \in Ids \ {id} : worlds'[j] = worlds[j]]_vars

\* the second add() under one id has been refused, the first world is the
\* one registered
C21_Witness ==
    /\ ret.op = "add"
    /\ ~ret.ok
    /\ Cardinality(moved) = 2
    /\ Cardinality(lost) = 1
    /\ \E id \in Ids : ret.id = id /\ worlds[id] \in moved \ lost

\* C22: after exec(id) has returned Ok and until the callable has completed,
\* stop() not having been called, del(id) returns the StillRunning error and
\* the entry stays in the map.
C22_DelRefusedWhileExecuting ==
    [][\A c \in Clients, t \in Tasks :
          (/\ FirstStep(c, "del")
           /\ cl[c].t = t
           /\ startOk[t]
           /\ Executing(t)
           /\ status[t] # Stopped)
              => (/\ ret'.op = "del"
                  /\ ~ret'.ok
                  /\ worlds' = worlds)]_vars

\* C23: exec, kill, progress, status and del called with an id that is not in
\* the map return the NotFound error and change neither the map nor any
\* world; get returns None.
C23_UnknownIdNotFound ==
    [][\A id \in Ids :
          (ret'.id = id /\ worlds[id] = NoWorld)
              => /\ ret'.op \in {"exec", "kill", "progress", "status", "del"}
                    => (/\ ~ret'.ok
                        /\ ret'.err = ErrNotFound(id)
                        /\ UNCHANGED <<taskVars, regVars>>)
                 /\ ret'.op = "get"
                    => (/\ ~ret'.ok
                        /\ ret'.t = NoTask
                        /\ UNCHANGED <<taskVars, regVars>>)]_vars

\* kill(id) of an id that was deleted before has been refused, the world
\* that had the id still Running
C23_Witness ==
    /\ ret.op = "kill"
    /\ ~ret.ok
    /\ \E id \in Ids : ret.id = id /\ ret.err = ErrNotFound(id) /\ worlds[id] = NoWorld
    /\ \E t \in moved \ lost : status[t] = Running /\ \A i \in Ids : worlds[i] # t

\* caller c, inside the loop of start_all or stop_all, takes a step
BulkStep(c, loop) == cl[c].bulk = loop /\ cl'[c] # cl[c]

\* a step of a bulk loop reports nothing but the loop's own return
BulkSilent(loop) ==
    \/ ret' = NoRes
    \/ ret'.op = loop /\ ret'.ok /\ ret'.err = <<>>

\* C24: start_all() starts every registered world that is Ready and has a
\* callable, and nothing else: a world in another status and a Ready world
\* without a callable are left as they are, no failure of a start() is
\* reported, and the map is unchanged; when it returns no registered world
\* is left with its callable.
C24_StartAllStartsReady ==
    [][\A c \in Clients :
          /\ (cl[c].bulk = "none" /\ cl'[c].bulk = "start_all")
                => cl'[c].todo = Registered
          /\ BulkStep(c, "start_all")
                => /\ worlds' = worlds
                   /\ BulkSilent("start_all")
                   /\ ret'.op = "start_all"
                         => /\ cl[c].todo = {}
                            /\ \A id \in Registered :
                                  process[worlds[id]] = NoProcess
                   /\ \A u \in Tasks :
                         IF cl[c].t = u /\ status[u] = Ready /\ process[u] # NoProcess
                         THEN /\ cl[c].pc = "bulk_check" => cl'[c].pc = "start"
                              /\ cl[c].pc = "start"
                                    => (tpc'[u] = "spawned" /\ job'[u] = process[u])
                         ELSE \/ WorldState(u)' = WorldState(u)
                              \/ cl[c].t = u /\ cl[c].pc = "start_handle"]_vars

\* start_all() has returned with two worlds registered: it started the one
\* and left the other, which has no callable, Ready
C24_Witness ==
    /\ ret.op = "start_all"
    /\ \E i, j \in Registered :
          /\ tpc[worlds[i]] = "spawned"
          /\ thread_handle[worlds[i]]
          /\ tpc[worlds[j]] = "none"
          /\ status[worlds[j]] = Ready
          /\ process[worlds[j]] = NoProcess

\* C25: stop_all() sets every registered world that is Running to Stopped
\* and leaves the worlds in another status, and the map, unchanged.
C25_StopAllStopsRunning ==
    [][\A c \in Clients :
          /\ (cl[c].bulk = "none" /\ cl'[c].bulk = "stop_all")
                => cl'[c].todo = Registered
          /\ BulkStep(c, "stop_all")
                => /\ worlds' = worlds
                   /\ BulkSilent("stop_all")
                   /\ ret'.op = "stop_all" => cl[c].todo = {}
                   /\ \A u \in Tasks :
                         IF cl[c].t = u /\ status[u] = Running
                         THEN /\ cl[c].pc = "bulk_check" => cl'[c].pc = "stop"
                              /\ cl[c].pc = "stop" => status'[u] = Stopped
                         ELSE /\ status'[u] = status[u]
                              /\ \/ WorldState(u)' = WorldState(u)
                                 \/ cl[c].t = u /\ cl[c].pc = "stop_handle"]_vars

\* stop_all() has returned having stopped two Running worlds
C25_Witness ==
    /\ ret.op = "stop_all"
    /\ Cardinality(Registered) = 2
    /\ \A i \in Registered :
          /\ status[worlds[i]] = Stopped
          /\ ~thread_handle[worlds[i]]
          /\ startOk[worlds[i]]

\* C26: the map lock is never held across the execution of a callable or a
\* blocking wait: no caller owns the worlds mutex while it is kept from a
\* world's thread_handle mutex by a status() call that waits for the world's
\* thread.
C26_MapLockNotHeldAcrossExecution ==
    \A c \in Clients :
        worldsLock = c
            => ~(/\ cl[c].pc \in {"start_handle", "stop_handle"}
                 /\ \E d \in Clients :
                       /\ handleLock[cl[c].t] = d
                       /\ WaitsForThread(d))

\* C27: progress() is not kept waiting by a status() call that is joining the
\* world's thread: with such a call under way progress() can take its step,
\* and it returns the status as it is.
C27_ProgressNotBlockedByWait ==
    /\ \A c, d \in Clients :
          (/\ cl[c].pc = "progress"
           /\ cl[d].pc = "join"
           /\ cl[d].t = cl[c].t)
              => ENABLED Progress(c)
    /\ (ret.op = "progress" /\ ret.t \in Tasks) => ret.st = status[ret.t]

\* progress() has returned Running while another caller is joining the
\* thread, whose callable has not come to its end
C27_Witness ==
    /\ ret.op = "progress"
    /\ ret.st = Running
    /\ \E d \in Clients : cl[d].pc = "join" /\ cl[d].t = ret.t /\ handleLock[ret.t] = d
    /\ tpc[ret.t] = "running"

\* C28: del(id) drops the entry of the map and nothing else: the fields of
\* every world, its status and the message in its channel are as before, and
\* the world removed stays callable through the handles that get() returned.
C28_DelDropsOnlyTheEntry ==
    [][\A id \in Ids :
          (ret'.op = "del" /\ ret'.ok /\ ret'.id = id)
              => /\ UNCHANGED <<taskVars, made, lost>>
                 /\ worlds[id] \in made' \ lost'
                 /\ worlds'[id] = NoWorld
                 /\ \A j \in Ids \ {id} : worlds'[j] = worlds[j]]_vars

\* status() on a world that was registered and deleted has returned the
\* callable's value
C28_Witness ==
    /\ ret.op = "wait"
    /\ ret.ok
    /\ ret.t \in moved \ lost
    /\ \A i \in Ids : worlds[i] # ret.t
    /\ ret.val = job[ret.t].val

C29_TypedWaitChecksType ==
    (typedWait.pc = "done" /\ typedWait.res.ok)
        => IF typedWait.asked = typedWait.res.val.ty
           THEN typedWait.out = OkOf(typedWait.res.val)
           ELSE ~typedWait.out.ok /\ typedWait.out.err = ErrTypeMismatch

\* the result of an i32 world, asked for as a String, has been refused
C29_Witness ==
    /\ typedWait.pc = "done"
    /\ typedWait.res.ok
    /\ typedWait.res.val.ty = "i32"
    /\ typedWait.asked = "String"
    /\ typedWait.out = ErrOf(ErrTypeMismatch)

\* the result of an i32 world, asked for as an i32, has been returned
C29_WitnessValue ==
    /\ typedWait.pc = "done"
    /\ typedWait.res = OkOf([ty |-> "i32", v |-> MaxInt])
    /\ typedWait.asked = "i32"
    /\ typedWait.out = typedWait.res

\* C31: the spawned thread updates the status before it sends: when status()
\* returns what it received from the channel, Ok or the Err of a panic, the
\* status is Finished, Failed or Stopped, not Ready or Running.
C31_StatusSetBeforeSend ==
    (ret.op = "wait" /\ ret.src = "chan")
        => status[ret.t].tag \in {"Finished", "Failed", "Stopped"}

\* status() has received the value while the thread, having sent it, has not
\* ended yet
C31_Witness ==
    /\ ret.op = "wait"
    /\ ret.src = "chan"
    /\ ret.ok
    /\ tpc[ret.t] = "exit"
    /\ status[ret.t].tag = "Stopped"

\* C32: the status Killed is never reached: the status of every world is
\* Ready, Running, Finished, Failed or Stopped in every state, also after
\* kill(id).
C32_KilledNeverReached ==
    \A t \in Tasks :
        status[t].tag \in {"Ready", "Running", "Finished", "Failed", "Stopped"}

\* the stop() that kill(id) calls has returned Ok on a registered world, which
\* is Stopped
C32_Witness ==
    /\ ret.op = "stop"
    /\ ret.ok
    /\ \E id \in Registered : worlds[id] = ret.t
    /\ status[ret.t].tag = "Stopped"

Next ==
    \/ \E c \in Clients, t \in Tasks :
          \/ CallStart(c, t)
          \/ CallRun(c, t)
          \/ CallStop(c, t)
          \/ CallProgress(c, t)
          \/ CallStatus(c, t)
    \/ \E c \in Clients :
          \/ StartBegin(c)
          \/ StartSetHandle(c)
          \/ StopBegin(c)
          \/ StopDetach(c)
          \/ Progress(c)
          \/ StatusLockHandle(c)
          \/ StatusJoin(c)
          \/ StatusRecv(c)
          \/ StatusNoReceiver(c)
    \/ \E c \in Clients, id \in Ids :
          \/ \E t \in Tasks : Add(c, id, t)
          \/ DelLock(c, id)
          \/ Get(c, id)
          \/ Exec(c, id)
          \/ Kill(c, id)
          \/ RegProgress(c, id)
          \/ RegStatus(c, id)
    \/ \E c \in Clients :
          \/ DelCheck(c)
          \/ List(c)
          \/ StartAll(c)
          \/ StopAll(c)
          \/ BulkNext(c)
          \/ BulkCheck(c)
    \/ \E t \in Tasks :
          \/ ThreadRun(t)
          \/ CallableStep(t)
          \/ ThreadOutcome(t)
          \/ ThreadSend(t)
          \/ ThreadExit(t)

Spec == Init /\ [][Next]_vars
SpecRegistry == InitRegistry /\ [][Next]_vars

\* the operating system runs every spawned thread that can take a step, the
\* callable is one that comes to its end, a caller blocked on the
\* thread_handle mutex gets it once it is released often enough, and a
\* caller inside status() that can take a step takes it
Fairness ==
    /\ \A t \in Tasks :
          /\ WF_vars(ThreadRun(t))
          /\ WF_vars(CallableStep(t))
          /\ WF_vars(ThreadOutcome(t))
          /\ WF_vars(ThreadSend(t))
          /\ WF_vars(ThreadExit(t))
    /\ \A c \in Clients :
          /\ SF_vars(StatusLockHandle(c))
          /\ WF_vars(StatusJoin(c))
          /\ WF_vars(StatusRecv(c))
          /\ WF_vars(StatusNoReceiver(c))

SpecLive == Init /\ [][Next]_vars /\ Fairness
SpecTyped == InitTyped /\ [][NextTyped]_vars

====
